---- MODULE Spec2Model ----
(***************************************************************************)
(* A model of the tailwind-playground repository: the two configuration   *)
(* objects, the dark-mode script of dark-mode/README.md, and the build    *)
(* and cascade behaviour that the project READMEs document for the        *)
(* utility framework the projects configure.                              *)
(***************************************************************************)
EXTENDS Integers, Sequences, FiniteSets, TLC

VARIABLES
    darkMode,       \* the darkMode key of the configuration: "class" or "media"
    htmlClassDark,  \* document.documentElement.classList contains 'dark'
    localStorage,   \* the value of localStorage item 'darkMode'
    prefersDark,    \* window.matchMedia('(prefers-color-scheme: dark)').matches
    width,          \* viewport width in px
    hovered,        \* the pointer is over the element of the markup
    lastOp,         \* history: the last script operation
    prevOp,         \* history: the operation before the last one
    darkBefore,     \* history: htmlClassDark right before the last operation
    savedBefore,    \* history: localStorage right before the last operation
    prefersBefore,  \* history: prefersDark at the last operation
    everToggled,    \* history: the user has toggled (by the function or the button)
    markupDark,     \* history: the html element's class in the markup of the last load
    theme,          \* the theme key of a tailwind.config.js
    resolvedTheme,  \* the theme the build resolved from it (<<>> before the build)
    config,         \* content, safelist and blocklist of a tailwind.config.js
    files,          \* the project's files: path -> text
    built,          \* whether the build has run on the current files
    output,         \* the utility classes in the build output
    stylesheet,     \* the items of src/style.css, in source order
    emitted,        \* the rules of the built CSS, in output order (<<>> before the build)
    exported,       \* project -> the object its tailwind.config.js exports
    projectFiles,   \* project -> the project's files: path -> text
    projectBuilt,   \* project -> whether its build has run on its current files
    projectOutput,  \* project -> what its build wrote (<<>> before the build)
    swatch,         \* the color utility the markup uses (<<>> for none)
    running,        \* the projects whose dev server is running
    portConflict    \* a dev server found its port taken

darkVars == <<darkMode, htmlClassDark, localStorage, prefersDark, width, hovered,
              lastOp, prevOp, darkBefore, savedBefore, prefersBefore, everToggled,
                   markupDark>>

themeVars == <<theme, resolvedTheme>>

scanVars == <<config, files, built, output>>

layerVars == <<stylesheet, emitted>>

projectVars == <<exported, projectFiles, projectBuilt, projectOutput>>

paletteVars == <<swatch>>

serverVars == <<running, portConflict>>

vars == <<darkVars, themeVars, scanVars, layerVars, projectVars, paletteVars,
         serverVars>>

otherThanDark == <<themeVars, scanVars, layerVars, projectVars, paletteVars,
    serverVars>>

otherThanTheme == <<darkVars, scanVars, layerVars, projectVars, paletteVars,
    serverVars>>

otherThanScan == <<darkVars, themeVars, layerVars, projectVars, paletteVars,
    serverVars>>

otherThanLayers == <<darkVars, themeVars, scanVars, projectVars, paletteVars,
    serverVars>>

otherThanProjects == <<darkVars, themeVars, scanVars, layerVars, paletteVars,
    serverVars>>

otherThanServers ==
    <<darkVars, themeVars, scanVars, layerVars, projectVars, paletteVars>>

otherThanPalette == <<darkVars, themeVars, scanVars, layerVars, projectVars,
    serverVars>>

(***************************************************************************)
(* Bounds                                                                  *)
(***************************************************************************)
MaxWidth == 1600

\* The most custom @layer blocks a stylesheet holds.
MaxBlocks == 4

(***************************************************************************)
(* Responsive breakpoints (colors/README.md, "Tailwind Breakpoints")       *)
(***************************************************************************)
sm == 640
md == 768
lg == 1024
xl == 1280
xxl == 1536

Breakpoints == <<"sm", "md", "lg", "xl", "2xl">>

BreakpointNames == {Breakpoints[i] : i \in 1..Len(Breakpoints)}

\* The min-widths of md and lg exchanged (mutant).
MinWidthLgBelowMd(bp) ==
    CASE bp = "sm" -> sm
      [] bp = "md" -> lg
      [] bp = "lg" -> md
      [] bp = "xl" -> xl
      [] bp = "2xl" -> xxl

MinWidth(bp) ==
    CASE bp = "sm" -> sm
      [] bp = "md" -> md
      [] bp = "lg" -> lg
      [] bp = "xl" -> xl
      [] bp = "2xl" -> xxl

\* The viewport widths the model visits: both sides of every breakpoint.
Widths == {0, 320, MaxWidth}
          \cup {MinWidth(bp) - 1 : bp \in BreakpointNames}
          \cup {MinWidth(bp) : bp \in BreakpointNames}

\* @media (min-width: Npx) with a strict comparison (mutant).
MediaMinWidthStrict(bp, w) == w > MinWidth(bp)

\* @media (min-width: Npx)
MediaMinWidth(bp, w) == w >= MinWidth(bp)

(***************************************************************************)
(* Dark mode strategies (dark-mode/README.md)                              *)
(***************************************************************************)
Strategies == {"class", "media"}

\* The two strategies swapped (mutant).
DarkVariantActiveSwapped(strategy, htmlDark, prefers) ==
    IF strategy = "class" THEN prefers ELSE htmlDark

\* Every strategy reads the html element's class (mutant).
DarkVariantActiveClassOnly(strategy, htmlDark, prefers) == htmlDark

\* Whether the dark: variant is active under a strategy.
DarkVariantActive(strategy, htmlDark, prefers) ==
    IF strategy = "class" THEN htmlDark ELSE prefers

(***************************************************************************)
(* Utilities, variants and the cascade among generated utilities           *)
(***************************************************************************)
\* A utility class: its variant prefixes, the property it sets and the value.
Utility(variants, prop, value) ==
    [variants |-> variants, prop |-> prop, value |-> value]

VariantOrder == <<"hover", "dark">> \o Breakpoints

VariantIndex(v) == CHOOSE i \in 1..Len(VariantOrder) : VariantOrder[i] = v

VariantActive(v) ==
    IF v = "dark"
    THEN DarkVariantActive(darkMode, htmlClassDark, prefersDark)
    ELSE IF v = "hover" THEN hovered
    ELSE MediaMinWidth(v, width)

\* A stacked utility applies as soon as one of its variants is active (mutant).
AppliesAny(u) == u.variants = {} \/ \E v \in u.variants : VariantActive(v)

\* A utility applies when every variant of its prefix is active.
Applies(u) == \A v \in u.variants : VariantActive(v)

RECURSIVE Pow2(_)
Pow2(n) == IF n = 0 THEN 1 ELSE 2 * Pow2(n - 1)

RECURSIVE SumRank(_)
SumRank(vs) ==
    IF vs = {} THEN 0
    ELSE LET v == CHOOSE x \in vs : TRUE
         IN  Pow2(VariantIndex(v)) + SumRank(vs \ {v})

\* Prefixed rules come before the unprefixed ones in the stylesheet (mutant).
RankUnprefixedLast(u) == 0 - SumRank(u.variants)

\* Position of a utility's rule in the generated stylesheet: unprefixed rules
\* first, then the variants in their fixed order.
Rank(u) == SumRank(u.variants)

\* The value the cascade gives `prop` on an element with class list `classes`:
\* the applicable rule that comes last in the stylesheet wins.
Computed(classes, prop) ==
    LET cand == {u \in classes : u.prop = prop /\ Applies(u)}
    IN  IF cand = {} THEN "unset"
        ELSE (CHOOSE u \in cand : \A o \in cand : Rank(o) <= Rank(u)).value

\* Markup of the README examples.
GridExample == {Utility({}, "grid-template-columns", "1"),
                Utility({"sm"}, "grid-template-columns", "2"),
                Utility({"lg"}, "grid-template-columns", "3")}

DarkExample == {Utility({}, "background-color", "white"),
                Utility({"dark"}, "background-color", "gray-800")}

\* "block sm:hidden", "hidden sm:block" and "hidden md:block"
BlockSmHidden == {Utility({}, "display", "block"), Utility({"sm"}, "display", "none")}

HiddenSmBlock == {Utility({}, "display", "none"), Utility({"sm"}, "display", "block")}

HiddenMdBlock == {Utility({}, "display", "none"), Utility({"md"}, "display", "block")}

\* An element is shown unless its display computes to none.
Visible(classes) == Computed(classes, "display") # "none"

(***************************************************************************)
(* The dark-mode script (dark-mode/README.md, "Implementation Example")    *)
(***************************************************************************)
NoItem == "(null)"

StoredValues == {NoItem, "true", "false", "auto"}

Ops == {"none", "init", "load", "toggle", "click"}

\* String(isDark), as localStorage.setItem stores it.
StringOf(b) == IF b THEN "true" ELSE "false"

\* initDarkMode that asks the system before the saved value (mutant).
InitResultSystemFirst(html, saved, prefers) ==
    IF prefers THEN TRUE
    ELSE IF saved = "true" THEN TRUE
    ELSE IF saved = "false" THEN FALSE
    ELSE html

\* The class state initDarkMode leaves, from the class state before it, the
\* saved item and the system preference.
InitResult(html, saved, prefers) ==
    IF saved = "true" THEN TRUE
    ELSE IF saved = "false" THEN FALSE
    ELSE IF prefers THEN TRUE ELSE html

Record(op) ==
    /\ lastOp' = op
    /\ prevOp' = lastOp
    /\ darkBefore' = htmlClassDark
    /\ savedBefore' = localStorage
    /\ prefersBefore' = prefersDark

initDarkMode ==
    /\ htmlClassDark' = InitResult(htmlClassDark, localStorage, prefersDark)
    /\ Record("init")
    /\ UNCHANGED <<darkMode, localStorage, prefersDark, width, hovered,
                   markupDark, everToggled>>
    /\ UNCHANGED otherThanDark

\* A page (re)load: the html element starts with the class of the markup and
\* the script runs initDarkMode().
PageLoad ==
    \E m \in BOOLEAN :
        /\ markupDark' = m
        /\ htmlClassDark' = InitResult(m, localStorage, prefersDark)
        /\ Record("load")
        /\ UNCHANGED <<darkMode, localStorage, prefersDark, width, hovered,
                       everToggled>>
        /\ UNCHANGED otherThanDark

\* toggleDarkMode that stores 'true' whatever the toggle gave (mutant).
ToggleStoredAlwaysTrue(html) == "true"

\* toggleDarkMode that stores the state before the toggle (mutant).
ToggleStoredStale(html) == StringOf(html)

\* What toggleDarkMode stores, from the class state before the toggle.
ToggleStored(html) == LET isDark == ~html IN StringOf(isDark)

toggleDarkMode ==
    /\ htmlClassDark' = ~htmlClassDark
    /\ localStorage' = ToggleStored(htmlClassDark)
    /\ Record("toggle")
    /\ everToggled' = TRUE
    /\ UNCHANGED <<darkMode, prefersDark, width, hovered, markupDark>>
    /\ UNCHANGED otherThanDark

\* The inline onclick handler of "Provide User Control".
ToggleButtonClick ==
    /\ htmlClassDark' = ~htmlClassDark
    /\ localStorage' = "true"
    /\ Record("click")
    /\ everToggled' = TRUE
    /\ UNCHANGED <<darkMode, prefersDark, width, hovered, markupDark>>
    /\ UNCHANGED otherThanDark

\* The user changes the system color scheme.
SystemPreferenceChange ==
    /\ prefersDark' = ~prefersDark
    /\ UNCHANGED <<darkMode, htmlClassDark, localStorage, width, hovered,
                   lastOp, prevOp, darkBefore, savedBefore, prefersBefore, everToggled,
                   markupDark>>
    /\ UNCHANGED otherThanDark

\* The user resizes the viewport.
Resize ==
    \E w \in Widths :
        /\ w # width
        /\ width' = w
        /\ UNCHANGED <<darkMode, htmlClassDark, localStorage, prefersDark, hovered,
                       lastOp, prevOp, darkBefore, savedBefore, prefersBefore, everToggled,
                   markupDark>>
        /\ UNCHANGED otherThanDark
    /\ UNCHANGED otherThanDark

\* The pointer enters or leaves the element.
Hover ==
    /\ hovered' = ~hovered
    /\ UNCHANGED <<darkMode, htmlClassDark, localStorage, prefersDark, width,
                   lastOp, prevOp, darkBefore, savedBefore, prefersBefore,
                   everToggled, markupDark>>
    /\ UNCHANGED otherThanDark

(***************************************************************************)
(* Theme resolution: extend versus override (theme-variables README,       *)
(* functions-directives/tailwind.config.js)                                *)
(***************************************************************************)
Categories == {"colors", "spacing", "fontSize"}

\* A token scale: a mapping from keys to values.
EmptyScale == [k \in {} |-> ""]

\* The framework's default scales, by the keys the READMEs reference.
DefaultTheme ==
    [colors   |-> ("blue" :> (("50" :> "blue.50") @@ ("600" :> "blue.600")))
                    @@ ("gray" :> ("900" :> "gray.900"))
                    @@ ("indigo" :> (("100" :> "indigo.100")
                                       @@ ("600" :> "indigo.600"))),
     spacing  |-> ("4" :> "1rem") @@ ("8" :> "2rem"),
     fontSize |-> ("lg" :> "1.125rem") @@ ("base" :> "1rem")]

\* colors.brand of functions-directives/tailwind.config.js.
Brand ==
    ("light" :> "var(--color-brand-light)")
      @@ ("DEFAULT" :> "var(--color-brand)")
      @@ ("dark" :> "var(--color-brand-dark)")

\* theme.extend of functions-directives/tailwind.config.js.
FunctionsDirectivesExtend ==
    [colors   |-> ("brand" :> Brand),
     spacing  |-> ("dynamic" :> "var(--spacing-dynamic)"),
     fontSize |-> ("responsive" :> "clamp(1rem, 2.5vw, 2.5rem)")]

\* A custom scale that also redefines one default key.
RedefiningScales ==
    [colors   |-> ("brand" :> Brand) @@ ("blue" :> ("DEFAULT" :> "#0ea5e9")),
     spacing  |-> ("dynamic" :> "var(--spacing-dynamic)") @@ ("4" :> "3.25rem"),
     fontSize |-> ("responsive" :> "clamp(1rem, 2.5vw, 2.5rem)")
                    @@ ("base" :> "0.875rem")]

CustomScales(c) == {FunctionsDirectivesExtend[c], RedefiningScales[c]}

\* A block of the theme (the top level or extend): scales for some categories.
Blocks ==
    UNION {[d -> UNION {CustomScales(c) : c \in Categories}] : d \in SUBSET Categories}

WellFormedBlock(b) == \A c \in DOMAIN b : b[c] \in CustomScales(c)

Themes == {[top |-> t, extend |-> e] :
             t \in {b \in Blocks : WellFormedBlock(b)},
             e \in {b \in Blocks : WellFormedBlock(b)}}

\* theme of functions-directives/tailwind.config.js.
FunctionsDirectivesTheme ==
    [top |-> [c \in {} |-> EmptyScale], extend |-> FunctionsDirectivesExtend]

\* theme of detecting-classes/tailwind.config.js.
DetectingClassesTheme ==
    [top |-> [c \in {} |-> EmptyScale], extend |-> [c \in {} |-> EmptyScale]]

\* The keys of a base scale and of an extension together; the extension's value
\* wins on a key both define.
MergeScale(base, ext) ==
    [k \in DOMAIN base \cup DOMAIN ext |->
        IF k \in DOMAIN ext THEN ext[k] ELSE base[k]]

\* An extend block that replaces the category like a top-level block (mutant).
ResolveCategoryExtendReplaces(t, c) ==
    IF c \in DOMAIN t.extend THEN t.extend[c]
    ELSE IF c \in DOMAIN t.top THEN t.top[c]
    ELSE DefaultTheme[c]

\* One category of the resolved theme: a top-level scale replaces the default
\* scale, an extend scale is added to whichever of the two is in place.
ResolveCategory(t, c) ==
    LET base == IF c \in DOMAIN t.top THEN t.top[c] ELSE DefaultTheme[c]
        ext  == IF c \in DOMAIN t.extend THEN t.extend[c] ELSE EmptyScale
    IN  MergeScale(base, ext)

ResolveTheme(t) == [c \in Categories |-> ResolveCategory(t, c)]

Unresolved == <<>>

\* The build reads the configuration once and resolves its theme.
ResolveConfig ==
    /\ resolvedTheme = Unresolved
    /\ resolvedTheme' = ResolveTheme(theme)
    /\ UNCHANGED theme
    /\ UNCHANGED otherThanTheme

ThemeInit ==
    /\ theme \in Themes
    /\ resolvedTheme = Unresolved

ThemeIdle ==
    /\ theme = DetectingClassesTheme
    /\ resolvedTheme = Unresolved

(***************************************************************************)
(* Class detection: content scanning, safelist and blocklist               *)
(* (detecting-classes README and tailwind.config.js)                       *)
(***************************************************************************)
\* Class names and file texts are sequences of fragments, so that a name can be
\* looked for inside a text and assembled from pieces.
Colors == {"red", "green", "blue"}

Shades == {"-50", "-500"}

BgClass(color, shade) == <<"bg-", color, shade>>

\* The utility classes the framework can generate.
Utilities ==
    {BgClass(c, sh) : c \in Colors, sh \in Shades}
    \cup {<<"text-white">>, <<"container">>}

\* Paths of the project's files.
IndexHtml == [dir |-> <<>>, name |-> "index", ext |-> "html"]
MainJs == [dir |-> <<"src">>, name |-> "main", ext |-> "js"]
ButtonJsx == [dir |-> <<"src", "components">>, name |-> "Button", ext |-> "jsx"]
ReadmeMd == [dir |-> <<>>, name |-> "README", ext |-> "md"]

Paths == {IndexHtml, MainJs, ButtonJsx, ReadmeMd}

\* "./index.html"
IndexGlob == [dir |-> <<>>, deep |-> FALSE, name |-> "index", exts |-> {"html"}]

\* "./src/**/*.{js,ts,jsx,tsx}"
SrcGlob ==
    [dir |-> <<"src">>, deep |-> TRUE, name |-> "*",
     exts |-> {"js", "ts", "jsx", "tsx"}]

\* content of detecting-classes/tailwind.config.js.
DetectingClassesContent == <<IndexGlob, SrcGlob>>

IsPrefix(a, b) == Len(a) <= Len(b) /\ SubSeq(b, 1, Len(a)) = a

GlobMatches(g, path) ==
    /\ IF g.deep THEN IsPrefix(g.dir, path.dir) ELSE g.dir = path.dir
    /\ g.name = "*" \/ g.name = path.name
    /\ path.ext \in g.exts

\* Texts of the README's examples.
StaticText == <<"<div class='", "bg-", "blue", "-500", " ", "text-white", "'>">>
TemplateText ==
    <<"const color = '", "blue", "'; className = ", "bg-", "${color}", "-500", ";">>
ConcatText ==
    <<"const color = '", "blue", "-500", "'; className = '", "bg-", "' + color">>
TernaryText ==
    <<"className = color === 'red' ? '", "bg-", "red", "-500", "' : '",
      "bg-", "blue", "-500", "'">>
ReadmeText == <<"<div class='", "container", " ", "bg-", "red", "-50", "'>">>
EmptyText == <<>>

TextsOf(path) ==
    CASE path = IndexHtml -> {StaticText, EmptyText}
      [] path = MainJs -> {TemplateText, ConcatText, EmptyText}
      [] path = ButtonJsx -> {TernaryText, EmptyText}
      [] path = ReadmeMd -> {ReadmeText, EmptyText}

\* The class names a text assembles at run time: by interpolating its color
\* into a template, or by appending its color to a prefix.
RuntimeClasses(text) ==
    {<<text[i - 1], text[j + 1], text[i + 1]>> :
        i \in {x \in 2..(Len(text) - 1) : text[x] = "${color}"},
        j \in {y \in 1..(Len(text) - 1) : text[y] = "const color = '"}}
    \cup
    {<<text[i - 1], text[j + 1], text[j + 2]>> :
        i \in {x \in 2..Len(text) : text[x] = "' + color"},
        j \in {y \in 1..(Len(text) - 2) : text[y] = "const color = '"}}

\* Whether a class name appears complete and verbatim in a text.
Contains(text, name) ==
    \E i \in 1..(Len(text) - Len(name) + 1) :
        SubSeq(text, i, i + Len(name) - 1) = name

\* { pattern: /bg-(red|green|blue)-(50|100|500)/ }
PatternExample ==
    [colors |-> {"red", "green", "blue"}, shades |-> {"-50", "-100", "-500"}]

PatternMatches(pat, name) ==
    /\ Len(name) = 3
    /\ name[1] = "bg-"
    /\ name[2] \in pat.colors
    /\ name[3] \in pat.shades

Safelists ==
    {[literals |-> l, patterns |-> q] :
        l \in SUBSET {BgClass("red", "-500"), <<"text-white">>},
        q \in SUBSET {PatternExample}}

Blocklists == SUBSET {<<"container">>, BgClass("blue", "-500"), BgClass("red", "-500")}

Configs ==
    {[content |-> c, safelist |-> sl, blocklist |-> bl] :
        c \in {DetectingClassesContent, <<IndexGlob>>},
        sl \in Safelists, bl \in Blocklists}

\* content, safelist and blocklist of detecting-classes/tailwind.config.js.
DetectingClassesConfig ==
    [content |-> DetectingClassesContent,
     safelist |-> [literals |-> {}, patterns |-> {}],
     blocklist |-> {}]

\* Every file of the project is scanned, whatever content says (mutant).
ScannedFilesAll(cfg, fs) == DOMAIN fs

\* The files the content globs select.
ScannedFiles(cfg, fs) ==
    {path \in DOMAIN fs :
        \E i \in 1..Len(cfg.content) : GlobMatches(cfg.content[i], path)}

\* The classes found in the scanned files.
Detected(cfg, fs) ==
    {u \in Utilities : \E path \in ScannedFiles(cfg, fs) : Contains(fs[path], u)}

\* Pattern objects of the safelist are ignored (mutant).
SafelistedLiteralsOnly(cfg) == {u \in Utilities : u \in cfg.safelist.literals}

\* The classes the safelist forces in.
Safelisted(cfg) ==
    {u \in Utilities :
        \/ u \in cfg.safelist.literals
        \/ \E pat \in cfg.safelist.patterns : PatternMatches(pat, u)}

\* The blocklist is not consulted (mutant).
GeneratedIgnoringBlocklist(cfg) == Utilities

\* The classes the framework generates: the blocklist prevents generation.
Generated(cfg) == Utilities \ cfg.blocklist

BuildOutput(cfg, fs) == (Detected(cfg, fs) \cup Safelisted(cfg)) \cap Generated(cfg)

\* pnpm build: scan the content files and write the CSS.
Build ==
    /\ ~built
    /\ built' = TRUE
    /\ output' = BuildOutput(config, files)
    /\ UNCHANGED <<config, files>>
    /\ UNCHANGED otherThanScan

\* The author changes a source file; the output is stale until the next build.
EditFile ==
    \E path \in Paths : \E text \in TextsOf(path) :
        /\ text # files[path]
        /\ files' = [files EXCEPT ![path] = text]
        /\ built' = FALSE
        /\ output' = {}
        /\ UNCHANGED config
        /\ UNCHANGED otherThanScan

ScanInit ==
    /\ config \in Configs
    /\ files \in {f \in [Paths -> UNION {TextsOf(q) : q \in Paths}] :
                    \A q \in Paths : f[q] \in TextsOf(q)}
    /\ built = FALSE
    /\ output = {}

ScanIdle ==
    /\ config = DetectingClassesConfig
    /\ files = [q \in Paths |-> EmptyText]
    /\ built = FALSE
    /\ output = {}

(***************************************************************************)
(* Directives and cascade layers (functions-directives and custom-styles   *)
(* READMEs)                                                                *)
(***************************************************************************)
Layers == <<"base", "components", "utilities">>

LayerRank(l) == CHOOSE i \in 1..Len(Layers) : Layers[i] = l

\* Selector specificity: an element selector, a single class.
ElementSelector == 1
ClassSelector == 10

\* "@tailwind <layer>;"
Directive(l) ==
    [kind |-> "tailwind", layer |-> l, selector |-> "", specificity |-> 0]

\* "@layer <layer> { <selector> { ... } }"
LayerBlock(l, sel, sp) ==
    [kind |-> "layer", layer |-> l, selector |-> sel, specificity |-> sp]

\* The three directives at the top of the main CSS file.
TailwindDirectives ==
    <<Directive("base"), Directive("components"), Directive("utilities")>>

\* The custom blocks of the README examples.
CustomBlocks ==
    {LayerBlock("base", "h1", ElementSelector),
     LayerBlock("components", ".btn", ClassSelector),
     LayerBlock("components", ".card", ClassSelector),
     LayerBlock("utilities", ".text-shadow", ClassSelector)}

\* The rules the framework generates for a layer.
FrameworkRules(l) ==
    CASE l = "base" ->
           <<[layer |-> "base", selector |-> "body", specificity |-> ElementSelector,
              segment |-> "base"]>>
      [] l = "components" ->
           <<[layer |-> "components", selector |-> ".container",
              specificity |-> ClassSelector, segment |-> "components"]>>
      [] l = "utilities" ->
           <<[layer |-> "utilities", selector |-> ".text-white",
              specificity |-> ClassSelector, segment |-> "utilities"]>>

\* The custom @layer blocks are left out of the built CSS (mutant).
CustomRulesDropped(sheet, l, seg) == <<>>

RECURSIVE CustomRulesOf(_, _, _)
\* The rules of the custom @layer blocks of layer l, in source order, emitted
\* in segment seg.
CustomRulesOf(sheet, l, seg) ==
    IF sheet = <<>> THEN <<>>
    ELSE LET item == Head(sheet)
             rest == CustomRulesOf(Tail(sheet), l, seg)
         IN  IF item.kind = "layer" /\ item.layer = l
             THEN <<[layer |-> item.layer, selector |-> item.selector,
                     specificity |-> item.specificity, segment |-> seg]>> \o rest
             ELSE rest

RECURSIVE EmitInSourceOrder(_, _)
\* Custom blocks stay where the source has them, inside the segment of the
\* directive before them (mutant).
EmitInSourceOrder(sheet, seg) ==
    IF sheet = <<>> THEN <<>>
    ELSE LET item == Head(sheet)
         IN  IF item.kind = "tailwind"
             THEN FrameworkRules(item.layer)
                    \o EmitInSourceOrder(Tail(sheet), item.layer)
             ELSE <<[layer |-> item.layer, selector |-> item.selector,
                     specificity |-> item.specificity, segment |-> seg]>>
                    \o EmitInSourceOrder(Tail(sheet), seg)

EmitUnhoisted(sheet) == EmitInSourceOrder(sheet, "base")

RECURSIVE EmitDirectives(_, _)
EmitDirectives(sheet, rest) ==
    IF rest = <<>> THEN <<>>
    ELSE LET item == Head(rest)
         IN  IF item.kind = "tailwind"
             THEN FrameworkRules(item.layer)
                    \o CustomRulesOf(sheet, item.layer, item.layer)
                    \o EmitDirectives(sheet, Tail(rest))
             ELSE EmitDirectives(sheet, Tail(rest))

\* The built CSS: every @tailwind directive is replaced by the framework's rules
\* of its layer followed by the custom @layer blocks of that layer.
Emit(sheet) == EmitDirectives(sheet, sheet)

\* Whether rule i of the CSS beats rule j on an element both match and a
\* property both set: the later layer wins, within a layer the higher
\* specificity, and at equal specificity the later rule.
Beats(css, i, j) ==
    LET a == css[i]
        b == css[j]
    IN  \/ LayerRank(a.segment) > LayerRank(b.segment)
        \/ /\ a.segment = b.segment
           /\ \/ a.specificity > b.specificity
              \/ a.specificity = b.specificity /\ i > j

RECURSIVE Arrangements(_, _)
\* The sequences of at most n distinct blocks of a set.
Arrangements(blocks, n) ==
    IF n = 0 \/ blocks = {} THEN {<<>>}
    ELSE {<<>>} \cup
         UNION {{<<b>> \o rest : rest \in Arrangements(blocks \ {b}, n - 1)} :
                  b \in blocks}

Stylesheets == {TailwindDirectives \o a : a \in Arrangements(CustomBlocks, MaxBlocks)}

\* pnpm build: process the directives of src/style.css.
BuildCss ==
    /\ emitted = <<>>
    /\ emitted' = Emit(stylesheet)
    /\ UNCHANGED stylesheet
    /\ UNCHANGED otherThanLayers

\* The author moves a custom block one place down in the file.
MoveBlock ==
    \E i \in (Len(TailwindDirectives) + 1)..(Len(stylesheet) - 1) :
        /\ stylesheet' = [stylesheet EXCEPT ![i] = stylesheet[i + 1],
                                            ![i + 1] = stylesheet[i]]
        /\ emitted' = <<>>
        /\ UNCHANGED otherThanLayers

LayerInit ==
    /\ stylesheet \in Stylesheets
    /\ emitted = <<>>

LayerIdle ==
    /\ stylesheet = TailwindDirectives
    /\ emitted = <<>>

(***************************************************************************)
(* The projects and their configuration files                              *)
(* (detecting-classes/tailwind.config.js,                                  *)
(* functions-directives/tailwind.config.js, root README)                   *)
(***************************************************************************)
Projects == {"detecting-classes", "functions-directives"}

\* The top-level keys the framework reads from a configuration object.
RecognizedKeys ==
    {"content", "theme", "darkMode", "safelist", "blocklist", "plugins"}

\* content of functions-directives/tailwind.config.js, the globs in the other
\* order (mutant).
FunctionsDirectivesContentSrcFirst == <<SrcGlob, IndexGlob>>

\* content of functions-directives/tailwind.config.js.
FunctionsDirectivesContent == <<IndexGlob, SrcGlob>>

\* export default of detecting-classes/tailwind.config.js with one more key,
\* the purge key of older framework versions (mutant).
DetectingClassesExportWithPurge ==
    [content |-> DetectingClassesContent,
     theme   |-> DetectingClassesTheme,
     plugins |-> <<>>,
     purge   |-> <<>>]

\* export default of detecting-classes/tailwind.config.js.
DetectingClassesExport ==
    [content |-> DetectingClassesContent,
     theme   |-> DetectingClassesTheme,
     plugins |-> <<>>]

\* export default of functions-directives/tailwind.config.js.
FunctionsDirectivesExport ==
    [content |-> FunctionsDirectivesContent,
     theme   |-> FunctionsDirectivesTheme,
     plugins |-> <<>>]

\* The configuration file each project directory holds.
ExportOf(p) ==
    IF p = "detecting-classes" THEN DetectingClassesExport
    ELSE FunctionsDirectivesExport

\* A configuration with the safelist of the detecting-classes README.
SafelistExport ==
    [content  |-> DetectingClassesContent,
     theme    |-> DetectingClassesTheme,
     plugins  |-> <<>>,
     safelist |-> [literals |-> {BgClass("red", "-500"), <<"text-white">>},
                   patterns |-> {PatternExample}]]

\* The configurations an author may give a project.
ExportChoices == {DetectingClassesExport, FunctionsDirectivesExport, SafelistExport}

\* Object literals are modelled as written: the key/value entries in source
\* order.

\* colors.brand of functions-directives/tailwind.config.js with a key written
\* twice (mutant).
BrandEntriesDuplicateKey ==
    <<<<"light", "var(--color-brand-light)">>,
      <<"DEFAULT", "var(--color-brand)">>,
      <<"light", "var(--color-brand-dark)">>>>

\* colors.brand of functions-directives/tailwind.config.js.
BrandEntries ==
    <<<<"light", "var(--color-brand-light)">>,
      <<"DEFAULT", "var(--color-brand)">>,
      <<"dark", "var(--color-brand-dark)">>>>

\* theme.extend.colors, spacing and fontSize of the same file.
ColorsEntries == <<<<"brand", "{...}">>>>
SpacingEntries == <<<<"dynamic", "var(--spacing-dynamic)">>>>
FontSizeEntries == <<<<"responsive", "clamp(1rem, 2.5vw, 2.5rem)">>>>

\* borderRadius and boxShadow of the theme-variables README.
BorderRadiusEntries ==
    <<<<"none", "0">>, <<"sm", "0.25rem">>, <<"base", "0.375rem">>,
      <<"md", "0.5rem">>, <<"lg", "0.75rem">>, <<"xl", "1rem">>,
      <<"2xl", "1.5rem">>, <<"3xl", "2rem">>, <<"full", "9999px">>>>
BoxShadowEntries ==
    <<<<"none", "none">>, <<"sm", "0 1px 2px...">>, <<"base", "0 1px 3px...">>,
      <<"md", "0 4px 6px...">>, <<"lg", "0 10px 15px...">>,
      <<"xl", "0 20px 25px...">>,
      <<"premium", "0 25px 50px -12px rgb(0 0 0 / 0.25)">>>>

\* The token scales written in the configuration files and the README, by
\* category.
ScaleLiterals ==
    {[category |-> "colors", entries |-> ColorsEntries],
     [category |-> "colors.brand", entries |-> BrandEntries],
     [category |-> "spacing", entries |-> SpacingEntries],
     [category |-> "fontSize", entries |-> FontSizeEntries],
     [category |-> "borderRadius", entries |-> BorderRadiusEntries],
     [category |-> "boxShadow", entries |-> BoxShadowEntries]}

KeysOf(entries) == {entries[i][1] : i \in DOMAIN entries}

\* The object an object literal evaluates to: of two entries with the same key
\* the later one stays.
ObjectOf(entries) ==
    [k \in KeysOf(entries) |->
        LET last == CHOOSE i \in DOMAIN entries :
                        /\ entries[i][1] = k
                        /\ \A j \in DOMAIN entries : entries[j][1] = k => j <= i
        IN  entries[last][2]]

\* The keys a configuration leaves out take the framework's defaults.
NormalizeConfig(export) ==
    [content   |-> export.content,
     safelist  |-> IF "safelist" \in DOMAIN export THEN export.safelist
                   ELSE [literals |-> {}, patterns |-> {}],
     blocklist |-> IF "blocklist" \in DOMAIN export THEN export.blocklist
                   ELSE {}]

\* A build run from the repository root: the content globs are applied to the
\* files of every project (mutant).
ProjectBuildFromRoot(p, exports, fss) ==
    [classes |-> UNION {BuildOutput(NormalizeConfig(exports[p]), fss[q]) :
                          q \in Projects},
     theme   |-> ResolveTheme(exports[p].theme)]

\* What pnpm build writes in project directory p: the paths of content are
\* relative to the directory, so the project's own files are scanned, and
\* the project's own tailwind.config.js is read.
ProjectBuild(p, exports, fss) ==
    [classes |-> BuildOutput(NormalizeConfig(exports[p]), fss[p]),
     theme   |-> ResolveTheme(exports[p].theme)]

\* pnpm build that keeps the theme it resolved in the configuration object
\* (mutant).
BuildProjectWritingBack(p) ==
    /\ ~projectBuilt[p]
    /\ projectBuilt' = [projectBuilt EXCEPT ![p] = TRUE]
    /\ projectOutput' =
         [projectOutput EXCEPT ![p] = ProjectBuild(p, exported, projectFiles)]
    /\ exported' =
         [exported EXCEPT
            ![p].theme = [top    |-> ResolveTheme(exported[p].theme),
                          extend |-> [c \in {} |-> EmptyScale]]]
    /\ UNCHANGED projectFiles
    /\ UNCHANGED otherThanProjects

\* pnpm build in project directory p.
BuildProject(p) ==
    /\ ~projectBuilt[p]
    /\ projectBuilt' = [projectBuilt EXCEPT ![p] = TRUE]
    /\ projectOutput' =
         [projectOutput EXCEPT ![p] = ProjectBuild(p, exported, projectFiles)]
    /\ UNCHANGED <<exported, projectFiles>>
    /\ UNCHANGED otherThanProjects

\* The author changes a source file of project p; the project's output is
\* stale until its next build.
EditProjectFile(p) ==
    \E path \in Paths : \E text \in TextsOf(path) :
        /\ text # projectFiles[p][path]
        /\ projectFiles' = [projectFiles EXCEPT ![p][path] = text]
        /\ projectBuilt' = [projectBuilt EXCEPT ![p] = FALSE]
        /\ projectOutput' = [projectOutput EXCEPT ![p] = <<>>]
        /\ UNCHANGED exported
        /\ UNCHANGED otherThanProjects

\* The author replaces the tailwind.config.js of project p.
EditProjectConfig(p) ==
    \E export \in ExportChoices :
        /\ export # exported[p]
        /\ exported' = [exported EXCEPT ![p] = export]
        /\ projectBuilt' = [projectBuilt EXCEPT ![p] = FALSE]
        /\ projectOutput' = [projectOutput EXCEPT ![p] = <<>>]
        /\ UNCHANGED projectFiles
        /\ UNCHANGED otherThanProjects

\* The custom property a value references through var(), NoVar for a value
\* without var().
NoVar == "(none)"

VarName(value) ==
    CASE value = "var(--color-brand-light)" -> "--color-brand-light"
      [] value = "var(--color-brand)" -> "--color-brand"
      [] value = "var(--color-brand-dark)" -> "--color-brand-dark"
      [] value = "var(--spacing-dynamic)" -> "--spacing-dynamic"
      [] OTHER -> NoVar

\* The :root block of "CSS Variables for Theming".
ThemingRoot ==
    ("--color-brand" :> "theme('colors.indigo.600')")
      @@ ("--color-brand-light" :> "theme('colors.indigo.100')")
      @@ ("--spacing-base" :> "theme('spacing.4')")

\* The :root block of "CSS Variables + theme()".
ThemeFunctionRoot ==
    ("--color-primary" :> "theme('colors.indigo.600')")
      @@ ("--color-text" :> "theme('colors.gray.900')")
      @@ ("--spacing-base" :> "theme('spacing.4')")

\* The custom properties the README's stylesheets define on :root.
RootProperties == DOMAIN ThemingRoot \cup DOMAIN ThemeFunctionRoot

\* Whether a theme value can be computed: it has no var(), or its custom
\* property is defined.
Resolves(value) == VarName(value) = NoVar \/ VarName(value) \in RootProperties

ProjectsInit ==
    /\ exported = [p \in Projects |-> ExportOf(p)]
    /\ projectFiles \in [Projects -> {[q \in Paths |-> EmptyText],
                                      [q \in Paths |-> IF q = IndexHtml
                                                       THEN StaticText
                                                       ELSE EmptyText]}]
    /\ projectBuilt = [p \in Projects |-> FALSE]
    /\ projectOutput = [p \in Projects |-> <<>>]

ProjectsIdle ==
    /\ exported = [p \in Projects |-> ExportOf(p)]
    /\ projectFiles = [p \in Projects |-> [q \in Paths |-> EmptyText]]
    /\ projectBuilt = [p \in Projects |-> FALSE]
    /\ projectOutput = [p \in Projects |-> <<>>]

(***************************************************************************)
(* The color palette (colors/README.md, "Tailwind Color System" and        *)
(* "Color Categories")                                                     *)
(***************************************************************************)
\* "Color Range: 50-900": the rows of the shade table, from the row marked
\* lightest to the row marked darkest.
ShadeScale == <<50, 100, 200, 300, 400, 500, 600, 700, 800, 900>>

NeutralColors == {"slate", "gray", "zinc", "neutral", "stone"}

PrimaryColors == {"blue", "cyan", "sky", "indigo", "violet"}

\* The extended colors, one short (mutant).
ExtendedColorsWithoutTeal ==
    {"purple", "fuchsia", "pink", "rose", "red", "orange", "amber", "yellow",
     "lime", "green", "emerald"}

ExtendedColors ==
    {"purple", "fuchsia", "pink", "rose", "red", "orange", "amber", "yellow",
     "lime", "green", "emerald", "teal"}

\* Colors given by one value, without a shade scale.
SpecialColors == {"black", "white", "transparent", "current", "inherit"}

ShadedColors == NeutralColors \cup PrimaryColors \cup ExtendedColors

PaletteColors == ShadedColors \cup SpecialColors

ShadesOf(c) == IF c \in SpecialColors THEN <<>> ELSE ShadeScale

\* The color utilities of the palette: bg-{color}-{shade}, or bg-{color} for a
\* special color.
ColorUtilities ==
    {<<c>> : c \in SpecialColors}
    \cup {<<c, ShadesOf(c)[i]>> : c \in ShadedColors, i \in 1..Len(ShadeScale)}

\* The markup is given a color utility of the palette.
UseColor ==
    \E u \in ColorUtilities :
        /\ u # swatch
        /\ swatch' = u
        /\ UNCHANGED otherThanPalette

PaletteInit == swatch = <<>>

PaletteIdle == swatch = <<>>

(***************************************************************************)
(* The dev servers of the nine projects (root README, "Core Concepts";     *)
(* "Getting Started" of each project README)                               *)
(***************************************************************************)
ProjectNames ==
    {"utility-classes", "states", "responsive-design", "dark-mode",
     "theme-variables", "colors", "custom-styles", "detecting-classes",
     "functions-directives"}

\* Every project on the default port of the build tool (mutant).
DevPortDefault(p) == 5173

\* The port the dev server of a project listens on.
DevPort(p) ==
    CASE p = "utility-classes" -> 5173
      [] p = "states" -> 5174
      [] p = "responsive-design" -> 5175
      [] p = "dark-mode" -> 5176
      [] p = "theme-variables" -> 5177
      [] p = "colors" -> 5178
      [] p = "custom-styles" -> 5179
      [] p = "detecting-classes" -> 5180
      [] p = "functions-directives" -> 5181

\* pnpm dev in project directory p: the server listens on the project's port,
\* or finds it taken by a server that is already running.
StartDev(p) ==
    /\ p \notin running
    /\ IF \E q \in running : DevPort(q) = DevPort(p)
       THEN portConflict' = TRUE /\ running' = running
       ELSE portConflict' = portConflict /\ running' = running \cup {p}
    /\ UNCHANGED otherThanServers

\* The dev server of project p is stopped.
StopDev(p) ==
    /\ p \in running
    /\ running' = running \ {p}
    /\ UNCHANGED portConflict
    /\ UNCHANGED otherThanServers

ServersInit ==
    /\ running = {}
    /\ portConflict = FALSE

ServersIdle ==
    /\ running = {}
    /\ portConflict = FALSE

DarkIdle ==
    /\ darkMode = "media"
    /\ htmlClassDark = FALSE
    /\ markupDark = FALSE
    /\ localStorage = NoItem
    /\ prefersDark = FALSE
    /\ width = 0
    /\ hovered = FALSE
    /\ lastOp = "none"
    /\ prevOp = "none"
    /\ darkBefore = FALSE
    /\ savedBefore = NoItem
    /\ prefersBefore = FALSE
    /\ everToggled = FALSE

DarkInit ==
    /\ darkMode \in Strategies
    /\ htmlClassDark \in BOOLEAN
    /\ markupDark = htmlClassDark
    /\ localStorage \in StoredValues
    /\ prefersDark \in BOOLEAN
    /\ width \in Widths
    /\ hovered = FALSE
    /\ lastOp = "none"
    /\ prevOp = "none"
    /\ darkBefore = htmlClassDark
    /\ savedBefore = localStorage
    /\ prefersBefore = prefersDark
    /\ everToggled = FALSE

Init == DarkInit /\ ThemeIdle /\ ScanIdle /\ LayerIdle
    /\ ProjectsIdle /\ PaletteIdle /\ ServersIdle

Next ==
    \/ initDarkMode
    \/ PageLoad
    \/ toggleDarkMode
    \/ ToggleButtonClick
    \/ SystemPreferenceChange
    \/ Resize
    \/ Hover

Spec == Init /\ [][Next]_vars

\* Theme resolution over every bounded theme.
InitTheme == ThemeInit /\ DarkIdle /\ ScanIdle /\ LayerIdle
    /\ ProjectsIdle /\ PaletteIdle /\ ServersIdle

NextTheme == ResolveConfig

SpecTheme == InitTheme /\ [][NextTheme]_vars

\* Builds of every bounded configuration over every bounded set of files.
InitScan == ScanInit /\ DarkIdle /\ ThemeIdle /\ LayerIdle
    /\ ProjectsIdle /\ PaletteIdle /\ ServersIdle

NextScan ==
    \/ Build
    \/ EditFile

SpecScan == InitScan /\ [][NextScan]_vars

\* Builds of every bounded stylesheet.
InitLayers == LayerInit /\ DarkIdle /\ ThemeIdle /\ ScanIdle
    /\ ProjectsIdle /\ PaletteIdle /\ ServersIdle

NextLayers ==
    \/ BuildCss
    \/ MoveBlock

SpecLayers == InitLayers /\ [][NextLayers]_vars

\* Builds of the two projects as committed, over every bounded set of files.
InitProjects ==
    /\ ProjectsInit /\ DarkIdle /\ ThemeIdle /\ ScanIdle /\ LayerIdle
    /\ PaletteIdle /\ ServersIdle

NextProjects ==
    \/ \E p \in Projects : BuildProject(p)
    \/ \E p \in Projects : EditProjectFile(p)

SpecProjects == InitProjects /\ [][NextProjects]_vars

\* The same, with an author who also replaces configuration files.
NextIndependence ==
    \/ \E p \in Projects : BuildProject(p)
    \/ \E p \in Projects : EditProjectFile(p)
    \/ \E p \in Projects : EditProjectConfig(p)

SpecIndependence == InitProjects /\ [][NextIndependence]_vars

\* Uses of every color utility of the palette.
InitPalette ==
    /\ PaletteInit /\ DarkIdle /\ ThemeIdle /\ ScanIdle /\ LayerIdle
    /\ ProjectsIdle /\ ServersIdle

NextPalette == UseColor

SpecPalette == InitPalette /\ [][NextPalette]_vars

\* Dev servers started and stopped in every order.
InitServers ==
    /\ ServersInit /\ DarkIdle /\ ThemeIdle /\ ScanIdle /\ LayerIdle
    /\ ProjectsIdle /\ PaletteIdle

NextServers ==
    \/ \E p \in ProjectNames : StartDev(p)
    \/ \E p \in ProjectNames : StopDev(p)

SpecServers == InitServers /\ [][NextServers]_vars

(***************************************************************************)
(* Claims                                                                  *)
(***************************************************************************)
\* C1: a category customised only under theme.extend resolves to the default
\* keys plus the custom keys; customised only at the top level of theme it
\* resolves to exactly the custom scale; the functions-directives theme
\* resolves with brand, dynamic and responsive added and every default key of
\* colors, spacing and fontSize kept.
C1_ExtendAddsOverrideReplaces ==
    resolvedTheme # Unresolved =>
        /\ \A c \in Categories :
              /\ (c \in DOMAIN theme.extend /\ c \notin DOMAIN theme.top) =>
                    /\ DOMAIN resolvedTheme[c]
                         = DOMAIN DefaultTheme[c] \cup DOMAIN theme.extend[c]
                    /\ \A k \in DOMAIN theme.extend[c] :
                          resolvedTheme[c][k] = theme.extend[c][k]
              /\ (c \in DOMAIN theme.top /\ c \notin DOMAIN theme.extend) =>
                    resolvedTheme[c] = theme.top[c]
        /\ theme = FunctionsDirectivesTheme =>
              /\ "brand" \in DOMAIN resolvedTheme["colors"]
              /\ "dynamic" \in DOMAIN resolvedTheme["spacing"]
              /\ "responsive" \in DOMAIN resolvedTheme["fontSize"]
              /\ \A c \in Categories :
                    DOMAIN DefaultTheme[c] \subseteq DOMAIN resolvedTheme[c]

\* The functions-directives theme has been resolved.
C1_Witness ==
    /\ theme = FunctionsDirectivesTheme
    /\ resolvedTheme # Unresolved
    /\ DOMAIN resolvedTheme["colors"] = {"blue", "gray", "indigo", "brand"}

NoSafelist == [literals |-> {}, patterns |-> {}]

C3_SafelistAlwaysPresent ==
    built =>
        /\ \A u \in config.safelist.literals : u \in output
        /\ \A u \in Utilities \ config.blocklist :
              (\E pat \in config.safelist.patterns : PatternMatches(pat, u))
                 => u \in output

\* C3 amended: every class named literally in safelist that blocklist does not
\* list, and every generated class matching a safelist pattern, is in the build
\* output whatever the scan found.
C3_SafelistPresentUnlessBlocked ==
    built =>
        /\ \A u \in config.safelist.literals \ config.blocklist : u \in output
        /\ \A u \in Utilities \ config.blocklist :
              (\E pat \in config.safelist.patterns : PatternMatches(pat, u))
                 => u \in output

\* A literal and a pattern-matched class are in the output though no scanned
\* file names them.
C3_Witness ==
    /\ built
    /\ \A path \in Paths : files[path] = EmptyText
    /\ <<"text-white">> \in config.safelist.literals
    /\ PatternExample \in config.safelist.patterns
    /\ <<"text-white">> \in output
    /\ BgClass("green", "-50") \in output

\* C4: every class listed in blocklist is absent from the build output, also
\* when its complete name stands in a scanned content file.
C4_BlocklistAlwaysAbsent ==
    built => \A u \in config.blocklist : u \notin output

\* bg-blue-500 stands in the scanned index.html, is blocklisted and absent,
\* while text-white from the same file is present.
C4_Witness ==
    /\ built
    /\ BgClass("blue", "-500") \in config.blocklist
    /\ Contains(files[IndexHtml], BgClass("blue", "-500"))
    /\ IndexHtml \in ScannedFiles(config, files)
    /\ <<"text-white">> \in output
    /\ BgClass("blue", "-500") \notin output

\* C5: of two rules of the built CSS that belong to different layers, the one
\* of the later layer (base < components < utilities) wins, in whatever order
\* the @layer blocks stand in the stylesheet: a utility beats a component and a
\* component beats a base style.
C5_LaterLayerWins ==
    emitted # <<>> =>
        \A i, j \in 1..Len(emitted) :
           LayerRank(emitted[i].layer) < LayerRank(emitted[j].layer)
              => Beats(emitted, j, i) /\ ~Beats(emitted, i, j)

\* The utilities block is written before the components and base blocks, and
\* its rule still beats theirs.
C5_Witness ==
    /\ emitted # <<>>
    /\ Len(stylesheet) = 6
    /\ stylesheet[4].layer = "utilities"
    /\ stylesheet[5].layer = "components"
    /\ stylesheet[6].layer = "base"
    /\ \E i, j \in 1..Len(emitted) :
          /\ emitted[i].selector = ".text-shadow"
          /\ emitted[j].selector = ".btn"
          /\ Beats(emitted, i, j)

DarkUtility == Utility({"dark"}, "background-color", "gray-800")

PlainUtility == Utility({}, "background-color", "white")

\* C6: with darkMode 'class' a dark: utility applies exactly when the html
\* element has the class dark, whatever the system preference; without the
\* class only the unprefixed utility applies.
C6_ClassStrategy ==
    darkMode = "class" =>
        /\ Applies(DarkUtility) <=> htmlClassDark
        /\ Computed(DarkExample, "background-color")
             = (IF htmlClassDark THEN "gray-800" ELSE "white")
        /\ ~htmlClassDark => {u \in DarkExample : Applies(u)} = {PlainUtility}

\* The class strategy shows dark although the system prefers light.
C6_Witness ==
    /\ darkMode = "class"
    /\ lastOp = "toggle"
    /\ htmlClassDark
    /\ ~prefersDark
    /\ Computed(DarkExample, "background-color") = "gray-800"

\* C7: with darkMode 'media' a dark: utility applies exactly when the system
\* prefers the dark color scheme, whatever the html element's class is and
\* whatever the script did.
C7_MediaStrategy ==
    darkMode = "media" =>
        /\ Applies(DarkUtility) <=> prefersDark
        /\ Computed(DarkExample, "background-color")
             = (IF prefersDark THEN "gray-800" ELSE "white")

\* The media strategy stays light although the html element has the class.
C7_Witness ==
    /\ darkMode = "media"
    /\ lastOp = "toggle"
    /\ htmlClassDark
    /\ ~prefersDark
    /\ Computed(DarkExample, "background-color") = "white"

\* C8: after toggleDarkMode calls followed by a reload whose markup has no
\* dark class, the html element has the class exactly if it had it right
\* after the last toggle, whatever the system preference.
C8_ToggleSavedAndRestored ==
    (lastOp = "load" /\ prevOp = "toggle" /\ ~markupDark)
        => htmlClassDark = darkBefore

\* A reload restores dark although markup and system are light.
C8_Witness ==
    /\ lastOp = "load"
    /\ prevOp = "toggle"
    /\ ~markupDark
    /\ ~prefersDark
    /\ darkBefore
    /\ htmlClassDark

\* C9: after initDarkMode a saved 'true' leaves the class present and a saved
\* 'false' leaves it absent, whatever the system preference and the class
\* state before the call.
C9_SavedBeatsSystem ==
    lastOp \in {"init", "load"} =>
        /\ savedBefore = "true" => htmlClassDark
        /\ savedBefore = "false" => ~htmlClassDark

\* initDarkMode removed the class on a saved 'false' while the system is dark.
C9_Witness ==
    /\ lastOp = "init"
    /\ savedBefore = "false"
    /\ localStorage = "false"
    /\ prefersDark
    /\ darkBefore
    /\ ~htmlClassDark

\* One utility per breakpoint prefix, all setting the same property.
ColumnUtilities ==
    {Utility({}, "grid-template-columns", "base")}
    \cup {Utility({bp}, "grid-template-columns", bp) : bp \in BreakpointNames}

\* The min-widths as the claim states them.
StatedMinWidth(value) ==
    CASE value = "base" -> 0
      [] value = "sm" -> 640
      [] value = "md" -> 768
      [] value = "lg" -> 1024
      [] value = "xl" -> 1280
      [] value = "2xl" -> 1536

\* C10: an unprefixed utility applies at every width, a prefixed one exactly
\* from its min-width (640/768/1024/1280/1536), the largest satisfied
\* breakpoint wins, and the grid example has 1, 2, 3 columns below 640, from
\* 640 to 1023 and from 1024.
C10_MobileFirst ==
    /\ \A u \in ColumnUtilities : Applies(u) <=> width >= StatedMinWidth(u.value)
    /\ \A S \in SUBSET ColumnUtilities :
          LET sat == {u \in S : width >= StatedMinWidth(u.value)}
          IN  IF sat = {}
              THEN Computed(S, "grid-template-columns") = "unset"
              ELSE \A u \in sat :
                     StatedMinWidth(u.value)
                        <= StatedMinWidth(Computed(S, "grid-template-columns"))
    /\ Computed(GridExample, "grid-template-columns")
         = (IF width < 640 THEN "1" ELSE IF width <= 1023 THEN "2" ELSE "3")

\* Exactly at the sm breakpoint the grid example has two columns.
C10_Witness ==
    /\ width = 640
    /\ Computed(GridExample, "grid-template-columns") = "2"

\* C12: the configuration of each project is one exported object whose
\* top-level keys are all among content, theme, darkMode, safelist, blocklist
\* and plugins; the two configuration files define exactly content, theme and
\* plugins.
C12_TopLevelKeys ==
    \A p \in Projects :
        /\ DOMAIN exported[p] \subseteq RecognizedKeys
        /\ DOMAIN exported[p] = {"content", "theme", "plugins"}

\* Both projects have been built from their configuration objects.
C12_Witness ==
    /\ \A p \in Projects : projectBuilt[p]
    /\ DOMAIN exported["detecting-classes"] = {"content", "theme", "plugins"}
    /\ projectOutput["detecting-classes"].classes = {}

\* C13: the content of each project is a list of two globs, ./index.html
\* first and the glob over src for js, ts, jsx and tsx second; with it the
\* build scans index.html and the files under src, and no other file.
C13_ContentPaths ==
    \A p \in Projects :
        LET c == exported[p].content
        IN  /\ Len(c) = 2
            /\ c[1] = [dir |-> <<>>, deep |-> FALSE, name |-> "index",
                       exts |-> {"html"}]
            /\ c[2] = [dir |-> <<"src">>, deep |-> TRUE, name |-> "*",
                       exts |-> {"js", "ts", "jsx", "tsx"}]
            /\ ScannedFiles(NormalizeConfig(exported[p]), projectFiles[p])
                 = {IndexHtml, MainJs, ButtonJsx}

\* functions-directives has been built and a class of its index.html is in
\* the output.
C13_Witness ==
    /\ projectBuilt["functions-directives"]
    /\ projectFiles["functions-directives"][IndexHtml] = StaticText
    /\ BgClass("blue", "-500") \in projectOutput["functions-directives"].classes

\* C14: no token scale is written with the same key twice, colors.brand has
\* exactly the keys light, DEFAULT and dark, and scales of different
\* categories do share keys.
C14_ScaleKeysUnique ==
    /\ \A lit \in ScaleLiterals :
         \A i, j \in DOMAIN lit.entries :
            lit.entries[i][1] = lit.entries[j][1] => i = j
    /\ Len(BrandEntries) = 3
    /\ KeysOf(BrandEntries) = {"light", "DEFAULT", "dark"}
    /\ exported["functions-directives"].theme.extend.colors["brand"]
         = ObjectOf(BrandEntries)
    /\ \E a, b \in ScaleLiterals :
         /\ a.category # b.category
         /\ KeysOf(a.entries) \cap KeysOf(b.entries) # {}

\* The theme functions-directives was built with has the three keys of
\* colors.brand, next to the default colors.
C14_Witness ==
    /\ projectBuilt["functions-directives"]
    /\ DOMAIN projectOutput["functions-directives"].theme.colors["brand"]
         = {"light", "DEFAULT", "dark"}
    /\ "sm" \in KeysOf(BorderRadiusEntries) \cap KeysOf(BoxShadowEntries)

\* C15: the output a project was built to is what a build of it gives whatever
\* configuration and whatever file contents the other project has.
C15_ProjectsIndependent ==
    \A p, q \in Projects :
        (p # q /\ projectBuilt[p]) =>
            \A export \in ExportChoices : \A path \in Paths :
                \A text \in TextsOf(path) :
                    ProjectBuild(p, [exported EXCEPT ![q] = export],
                                 [projectFiles EXCEPT ![q][path] = text])
                      = projectOutput[p]

\* functions-directives stays built with an empty class set while the other
\* project has been given another configuration and content.
C15_Witness ==
    /\ projectBuilt["functions-directives"]
    /\ projectOutput["functions-directives"].classes = {}
    /\ exported["detecting-classes"] = SafelistExport
    /\ projectFiles["detecting-classes"][IndexHtml] = StaticText
    /\ projectBuilt["detecting-classes"]
    /\ projectOutput["detecting-classes"].classes # {}

\* C16: no step of a build, and no edit of a source file, changes the keys of
\* a configuration object or its content, theme or plugins.
C16_ConfigNeverChanges ==
    [][\A p \in Projects :
         /\ DOMAIN exported'[p] = DOMAIN exported[p]
         /\ exported'[p].content = exported[p].content
         /\ exported'[p].theme = exported[p].theme
         /\ exported'[p].plugins = exported[p].plugins]_vars

\* Both projects were built after edits and the configuration objects are the
\* ones of the files.
C16_Witness ==
    /\ \A p \in Projects : projectBuilt[p]
    /\ \A p \in Projects : projectFiles[p][MainJs] = ConcatText
    /\ exported = [p \in Projects |-> ExportOf(p)]

C18_StoredAgreesAfterToggle ==
    lastOp = "toggle" =>
        /\ localStorage = "true" <=> htmlClassDark
        /\ localStorage = "false" <=> ~htmlClassDark

\* A toggle after the inline button had left 'true' stored on a light page:
\* the class is back and 'true' is stored.
C18_Witness ==
    /\ lastOp = "toggle"
    /\ prevOp = "click"
    /\ savedBefore = "true"
    /\ ~darkBefore
    /\ htmlClassDark
    /\ localStorage = "true"

\* C19 as stated: with no saved darkMode value, or one other than 'true' and
\* 'false', the html element has the dark class after initDarkMode exactly if
\* the system prefers the dark color scheme.
C19_SystemDecidesWithoutSaved ==
    (lastOp \in {"init", "load"} /\ savedBefore \notin {"true", "false"})
        => (htmlClassDark <=> prefersBefore)

\* C20 as stated: after clicks on the 'Provide User Control' button followed by
\* a reload whose markup has no dark class, the page is in dark mode exactly
\* if it was after the last click.
C20_ButtonChoiceRestored ==
    (lastOp = "load" /\ prevOp = "click" /\ ~markupDark)
        => htmlClassDark = darkBefore

\* C21 as stated: initDarkMode never writes localStorage and only a toggle
\* writes the darkMode item, so as long as the user has never toggled and
\* nothing is stored, the page follows, after every load, the system
\* preference current at that load.
C21_LoadsFollowSystemUntilToggled ==
    [][/\ (initDarkMode \/ PageLoad) => localStorage' = localStorage
       /\ localStorage' # localStorage => (toggleDarkMode \/ ToggleButtonClick)
       /\ (PageLoad /\ ~everToggled /\ localStorage = NoItem)
            => (htmlClassDark' <=> prefersDark)]_vars

\* dark:hover:bg-blue-600 and md:dark:text-gray-200
DarkHoverUtility == Utility({"dark", "hover"}, "background-color", "blue-600")
MdDarkUtility == Utility({"md", "dark"}, "color", "gray-200")

\* Dark mode is active: the html element has the class under the class
\* strategy, the system prefers dark under the media strategy.
DarkModeActive ==
    \/ darkMode = "class" /\ htmlClassDark
    \/ darkMode = "media" /\ prefersDark

\* C22: dark:hover:bg-blue-600 applies exactly if dark mode is active and the
\* element is hovered; md:dark:text-gray-200 applies exactly if the viewport
\* is at least 768 px wide and dark mode is active.
C22_StackedVariantsConjoin ==
    /\ Applies(DarkHoverUtility) <=> (DarkModeActive /\ hovered)
    /\ Applies(MdDarkUtility) <=> (width >= 768 /\ DarkModeActive)

\* Dark by a toggle and hovered, one pixel below md: the first stacked utility
\* applies, the second does not.
C22_Witness ==
    /\ lastOp = "toggle"
    /\ darkMode = "class"
    /\ htmlClassDark
    /\ hovered
    /\ width = 767
    /\ Applies(DarkHoverUtility)
    /\ ~Applies(MdDarkUtility)

\* C23: of the elements block sm:hidden and hidden sm:block exactly one is
\* visible at every viewport width, the first exactly below 640 px and the
\* second exactly from 640 px; hidden md:block is visible exactly from 768 px.
C23_ExactlyOneVisible ==
    /\ Visible(BlockSmHidden) <=> width < 640
    /\ Visible(HiddenSmBlock) <=> width >= 640
    /\ Visible(BlockSmHidden) # Visible(HiddenSmBlock)
    /\ Visible(HiddenMdBlock) <=> width >= 768

\* Between sm and md, after a resize: only hidden sm:block is visible.
C23_Witness ==
    /\ width = 767
    /\ ~Visible(BlockSmHidden)
    /\ Visible(HiddenSmBlock)
    /\ ~Visible(HiddenMdBlock)

\* The breakpoint prefixes whose media query matches the viewport.
ActivePrefixes == {bp \in BreakpointNames : VariantActive(bp)}

\* C24: with the base entry the breakpoints are six, their min-widths are
\* 0 < 640 < 768 < 1024 < 1280 < 1536 in the order sm, md, lg, xl, 2xl, and at
\* every viewport width the active prefixes are an initial segment of that
\* order: no prefix is active while a smaller one is inactive.
C24_ActivePrefixesInitialSegment ==
    /\ Len(Breakpoints) + 1 = 6
    /\ Breakpoints = <<"sm", "md", "lg", "xl", "2xl">>
    /\ <<MinWidth("sm"), MinWidth("md"), MinWidth("lg"), MinWidth("xl"),
         MinWidth("2xl")>> = <<640, 768, 1024, 1280, 1536>>
    /\ 0 < MinWidth(Breakpoints[1])
    /\ \A i \in 1..(Len(Breakpoints) - 1) :
          MinWidth(Breakpoints[i]) < MinWidth(Breakpoints[i + 1])
    /\ \E k \in 0..Len(Breakpoints) :
          ActivePrefixes = {Breakpoints[i] : i \in 1..k}
    /\ \A i, j \in 1..Len(Breakpoints) :
          (i < j /\ Breakpoints[j] \in ActivePrefixes)
             => Breakpoints[i] \in ActivePrefixes

\* One pixel below xl, after a resize: sm, md and lg are active, xl and 2xl
\* are not.
C24_Witness ==
    /\ width = 1279
    /\ ActivePrefixes = {"sm", "md", "lg"}

\* The place of the rule with a selector in the built CSS (0 if it has none).
PlaceOf(sel) ==
    IF \E i \in 1..Len(emitted) : emitted[i].selector = sel
    THEN CHOOSE i \in 1..Len(emitted) : emitted[i].selector = sel
    ELSE 0

\* C25: the built CSS has the generated rules of base, components and
\* utilities in that order, and the rule of every custom @layer block, all of
\* them written after the three directives, stands in the part of its own
\* layer: after the generated rules of that layer and before those of the
\* next layer, wherever the block stands in the source file.
C25_DirectivesInOrderBlocksInLayer ==
    emitted # <<>> =>
        /\ 0 < PlaceOf("body")
        /\ PlaceOf("body") < PlaceOf(".container")
        /\ PlaceOf(".container") < PlaceOf(".text-white")
        /\ \A i, j \in 1..Len(emitted) :
              i < j => LayerRank(emitted[i].layer) <= LayerRank(emitted[j].layer)
        /\ \A k \in (Len(TailwindDirectives) + 1)..Len(stylesheet) :
              LET block == stylesheet[k]
                  at == PlaceOf(block.selector)
              IN  /\ at > 0
                  /\ emitted[at].layer = block.layer
                  /\ emitted[at].segment = block.layer
                  /\ at > PlaceOf(FrameworkRules(block.layer)[1].selector)
                  /\ \A l \in {Layers[n] : n \in 1..Len(Layers)} :
                        LayerRank(l) > LayerRank(block.layer)
                           => at < PlaceOf(FrameworkRules(l)[1].selector)

\* The base block is the last one of the file, after a utilities block, and
\* its rule is built before the generated components.
C25_Witness ==
    /\ emitted # <<>>
    /\ Len(stylesheet) = 5
    /\ stylesheet[4].selector = ".text-shadow"
    /\ stylesheet[5].selector = "h1"
    /\ PlaceOf("h1") = 2
    /\ PlaceOf(".text-shadow") = Len(emitted)

\* C26 as stated: every custom property the functions-directives configuration
\* references through var() is defined by the README's :root block, so no
\* color, spacing or font size of the theme the project is built with refers
\* to an undefined variable.
C26_VarReferencesDefined ==
    projectBuilt["functions-directives"] =>
        LET t == projectOutput["functions-directives"].theme
        IN  /\ \A k \in DOMAIN t.colors :
                  \A shade \in DOMAIN t.colors[k] : Resolves(t.colors[k][shade])
            /\ \A k \in DOMAIN t.spacing : Resolves(t.spacing[k])
            /\ \A k \in DOMAIN t.fontSize : Resolves(t.fontSize[k])

\* C27: the nine projects have the dev-server ports 5173 to 5181 in the order
\* of the root README, pairwise distinct, so whichever of them run at the
\* same time, no server finds its port taken and no two share a port.
C27_DistinctPorts ==
    /\ Cardinality(ProjectNames) = 9
    /\ <<DevPort("utility-classes"), DevPort("states"),
         DevPort("responsive-design"), DevPort("dark-mode"),
         DevPort("theme-variables"), DevPort("colors"),
         DevPort("custom-styles"), DevPort("detecting-classes"),
         DevPort("functions-directives")>>
         = <<5173, 5174, 5175, 5176, 5177, 5178, 5179, 5180, 5181>>
    /\ \A p, q \in ProjectNames : p # q => DevPort(p) # DevPort(q)
    /\ ~portConflict
    /\ \A p, q \in running : p # q => DevPort(p) # DevPort(q)

\* All nine dev servers run at the same time.
C27_Witness ==
    /\ running = ProjectNames
    /\ ~portConflict

====
